---- MODULE Spec2Model ----
(***************************************************************************)
(* A model of immutable_arena (src/src/lib.rs): an Arena of objects, the   *)
(* Builder sessions opened by Arena::build, the BuilderRef handles they    *)
(* hand out, and the set-once Ref cells that are bound when a Builder is   *)
(* dropped.                                                                *)
(*                                                                         *)
(* The arena is generic in its object type T.  An object here is          *)
(* { id, a }: an identifying field and one Ref cell, the test's BasicTest *)
(* with a single Ref field.  A Ref is its AtomicPtr: Null or the address  *)
(* of an object.  A Ref lives either inside an object of the arena (a     *)
(* "cell", <<"obj", address, field>>) or in a variable of the caller (a   *)
(* "local", <<"loc", index, "-">>).                                       *)
(***************************************************************************)
EXTENDS Integers, Sequences, FiniteSets, TLC

\* Bounds of the model.
MaxRefs == 3      \* Refs in existence: one in each object allocated, and
                  \* those held in the caller's variables
MaxDepth == 2     \* calls of Arena::build nested in each other
MaxSets == 2      \* assignments queued and not yet applied
NThreads == 2     \* threads that call set under SpecThreads

\* The null pointer, `0 as *mut T`.
Null == 0

Fields == {"a"}

VARIABLES
    heap,       \* typed_arena storage: address -> [id, a]
    locals,     \* the caller's Ref variables: a sequence of pointers
    handles,    \* the live BuilderRefs: [ptr, builder]
    builders,   \* the Builders of the build calls in progress, innermost
                \* last: [assignments]
    status,     \* "running" | "unwinding" | "aborted" | "null_reference" | "segfault"
    lastDrop,   \* history: how the last drop of a Builder ended, [st, done]
    setlog,     \* history, kept under SpecObserved and SpecThreads: the set
                \* calls made on the open Builders, [from, tgt, b]
    threads     \* under SpecThreads: where each thread is in its set call,
                \* [pc |-> "idle"] or [pc |-> "push", from, to, b, n]

vars == <<heap, locals, handles, builders, status, lastDrop, setlog, threads>>

\* ---------------------------------------------------------------- memory

\* The Refs that exist: the cells of the allocated objects and the locals.
Cells ==
    {<<"obj", p, f>> : p \in DOMAIN heap, f \in Fields}
        \cup {<<"loc", i, "-">> : i \in 1..Len(locals)}

\* self.ptr.load(Ordering::Relaxed) on the Ref c, in the memory m.
LoadIn(m, c) ==
    IF c[1] = "obj" THEN m.heap[c[2]][c[3]] ELSE m.locals[c[2]]

StoreIn(m, c, v) ==
    IF c[1] = "obj"
    THEN [m EXCEPT !.heap[c[2]][c[3]] = v]
    ELSE [m EXCEPT !.locals[c[2]] = v]

Memory == [heap |-> heap, locals |-> locals]

Load(c) == LoadIn(Memory, c)

\* AtomicPtr::compare_and_swap(current, new): stores new when the Ref holds
\* current, and returns the value the Ref held.
compare_and_swap(m, c, current, new) ==
    LET old == LoadIn(m, c)
    IN  [mem |-> IF old = current THEN StoreIn(m, c, new) ELSE m,
         old |-> old]

\* ---------------------------------------------------------------- Builder

\* A Builder is named by its place among the build calls in progress.
OpenBuilders == 1..Len(builders)

\* The loop of Drop for Builder from its i-th assignment on: each assignment
\* is applied with a compare-and-swap from Null; the first one that finds its
\* Ref already set panics, and the assignments after it are not applied.
\* done counts the assignments whose compare-and-swap succeeded.
RECURSIVE DropLoop(_, _, _)
DropLoop(m, q, i) ==
    IF i > Len(q)
    THEN [mem |-> m, done |-> i - 1, panicked |-> FALSE]
    ELSE LET r == compare_and_swap(m, q[i].from, Null, q[i].to)
         IN  IF r.old # Null
             THEN [mem |-> r.mem, done |-> i - 1, panicked |-> TRUE]
             ELSE DropLoop(r.mem, q, i + 1)

\* Mutant of Builder_drop: the Builder is forgotten, its queue never applied.
Builder_drop_forgotten(m, q) == [mem |-> m, done |-> 0, panicked |-> FALSE]

\* Mutant of Builder_drop: each assignment is stored without the test for a
\* Ref that is already set, so nothing is reported.
RECURSIVE StoreLoop(_, _, _)
StoreLoop(m, q, i) ==
    IF i > Len(q)
    THEN [mem |-> m, done |-> i - 1, panicked |-> FALSE]
    ELSE StoreLoop(StoreIn(m, q[i].from, q[i].to), q, i + 1)

Builder_drop_unchecked(m, q) == StoreLoop(m, q, 1)

\* Mutant of Builder_drop: an assignment that finds its Ref already set is
\* skipped, the ones after it are applied, and the panic is raised at the end.
RECURSIVE SkipLoop(_, _, _, _, _)
SkipLoop(m, q, i, done, failed) ==
    IF i > Len(q)
    THEN [mem |-> m, done |-> done, panicked |-> failed]
    ELSE LET r == compare_and_swap(m, q[i].from, Null, q[i].to)
         IN  SkipLoop(r.mem, q, i + 1,
                      IF r.old = Null THEN done + 1 ELSE done,
                      failed \/ r.old # Null)

Builder_drop_skipfail(m, q) == SkipLoop(m, q, 1, 0, FALSE)

\* Drop for Builder: the memory after the assignments q are applied.
Builder_drop(m, q) == DropLoop(m, q, 1)

\* The assignments queued on the Builders 1..n.
RECURSIVE Queued(_)
Queued(n) == IF n = 0 THEN 0 ELSE Len(builders[n].assignments) + Queued(n - 1)

\* The innermost Builder.
Top == Len(builders)

Pop(s) == SubSeq(s, 1, Len(s) - 1)

\* The threads that call set, and a thread that is in no set call.
Threads == 1..NThreads

Idle == [pc |-> "idle"]

\* The caller's code runs: no panic is unwinding and the process is alive.
Running == status = "running"

Init ==
    /\ heap = <<>>
    /\ locals = <<>>
    /\ handles = {}
    /\ builders = <<>>
    /\ status = "running"
    /\ lastDrop = [st |-> "none", done |-> 0]
    /\ setlog = <<>>
    /\ threads = [t \in Threads |-> Idle]

\* Arena::build, up to the call of the closure: a Builder with no assignments.
Arena_build ==
    /\ Running
    /\ Len(builders) < MaxDepth
    /\ builders' = Append(builders, [assignments |-> <<>>])
    /\ UNCHANGED <<heap, locals, handles, status, lastDrop, setlog, threads>>

\* The state after the innermost Builder is dropped with outcome r of Drop:
\* the assignments are applied, the queue is freed with the Builder, and the
\* handles tied to the Builder are gone.
Dropped(r, st) ==
    /\ heap' = r.mem.heap
    /\ locals' = r.mem.locals
    /\ builders' = Pop(builders)
    /\ handles' = {h \in handles : h.builder # Top}
    /\ lastDrop' = [st |-> st, done |-> r.done]
    /\ setlog' = SelectSeq(setlog, LAMBDA e : e.b # Top)
    /\ UNCHANGED threads

\* Arena::build, from the closure's return on: the local `builder` is dropped
\* (Drop for Builder runs) and then build returns, or the drop panics.
Arena_build_return ==
    /\ Running
    /\ builders # <<>>
    /\ LET r == Builder_drop(Memory, builders[Top].assignments)
       IN  /\ Dropped(r, IF r.panicked THEN "panicked" ELSE "returned")
           /\ status' = IF r.panicked THEN "unwinding" ELSE "running"

\* A panic unwinds through an enclosing build call: its Builder is dropped
\* too, and a second panic in that drop aborts the process.
Arena_build_unwind ==
    /\ status = "unwinding"
    /\ builders # <<>>
    /\ LET r == Builder_drop(Memory, builders[Top].assignments)
       IN  /\ Dropped(r, IF r.panicked THEN "panicked" ELSE "unwound")
           /\ status' = IF r.panicked THEN "aborted" ELSE "unwinding"

\* typed_arena::Arena::alloc: the arena bumps through its storage, so the
\* address returned is the first one no object occupies.
alloc == Cardinality(DOMAIN heap) + 1

\* Mutant of Builder_new: the value is stored over the last object allocated
\* and the handle points there.
Builder_new_reuse(b, t) ==
    LET p == IF DOMAIN heap = {} THEN 1 ELSE Cardinality(DOMAIN heap)
    IN  /\ Running
        /\ b \in OpenBuilders
        /\ Cardinality(Cells) < MaxRefs
        /\ heap' = [r \in DOMAIN heap \cup {p} |-> IF r = p THEN t ELSE heap[r]]
        /\ handles' = handles \cup {[ptr |-> p, builder |-> b]}
        /\ UNCHANGED <<locals, builders, status, lastDrop, setlog, threads>>

\* Builder::new: the value t is stored at the address alloc returns, and a
\* handle on it, tied to the Builder, is returned.
Builder_new(b, t) ==
    /\ Running
    /\ b \in OpenBuilders
    /\ Cardinality(Cells) < MaxRefs
    /\ heap' = [p \in DOMAIN heap \cup {alloc} |-> IF p = alloc THEN t ELSE heap[p]]
    /\ handles' = handles \cup {[ptr |-> alloc, builder |-> b]}
    /\ UNCHANGED <<locals, builders, status, lastDrop, setlog, threads>>

\* Mutant of Builder_freeze: the Ref returned is empty.
Builder_freeze_null(h) ==
    /\ Running
    /\ h \in handles
    /\ Cardinality(Cells) < MaxRefs
    /\ locals' = Append(locals, Null)
    /\ handles' = handles \ {h}
    /\ UNCHANGED <<heap, builders, status, lastDrop, setlog, threads>>

\* Builder::freeze: a Ref holding the handle's pointer; the handle is consumed.
Builder_freeze(h) ==
    /\ Running
    /\ h \in handles
    /\ Cardinality(Cells) < MaxRefs
    /\ locals' = Append(locals, h.ptr)
    /\ handles' = handles \ {h}
    /\ UNCHANGED <<heap, builders, status, lastDrop, setlog, threads>>

\* Ref::empty: a Ref holding the null pointer.
Ref_empty ==
    /\ Running
    /\ Cardinality(Cells) < MaxRefs
    /\ locals' = Append(locals, Null)
    /\ UNCHANGED <<heap, handles, builders, status, lastDrop, setlog, threads>>

\* Mutant of Ref_set: the Ref is bound to the handle's object at once, and
\* the assignment is queued as well.
Ref_set_eager(c, h) ==
    /\ Running
    /\ c \in Cells
    /\ h \in handles
    /\ Queued(Len(builders)) < MaxSets
    /\ builders' = [builders EXCEPT ![h.builder].assignments =
                        Append(@, [from |-> c, to |-> Load(c)])]
    /\ heap' = StoreIn(Memory, c, h.ptr).heap
    /\ locals' = StoreIn(Memory, c, h.ptr).locals
    /\ UNCHANGED <<handles, status, lastDrop, threads>>

\* Ref::set: pushes an assignment on the queue of the handle's Builder.  Its
\* `to` is self.ptr.load(), the pointer the Ref itself holds.
Ref_set(c, h) ==
    /\ Running
    /\ c \in Cells
    /\ h \in handles
    /\ Queued(Len(builders)) < MaxSets
    /\ builders' = [builders EXCEPT ![h.builder].assignments =
                        Append(@, [from |-> c, to |-> Load(c)])]
    /\ UNCHANGED <<heap, locals, handles, status, lastDrop, threads>>

\* History of a set call: the Ref it was called on, the address of the object
\* behind the handle it was given, and the handle's Builder.
Logged(c, h) ==
    setlog' = Append(setlog, [from |-> c, tgt |-> h.ptr, b |-> h.builder])

\* The thread t holds the MutexGuard of the queue of the Builder b.
Holds(t, b) == threads[t].pc = "push" /\ threads[t].b = b

\* The set calls in progress.
InFlight == Cardinality({t \in Threads : threads[t].pc = "push"})

AllIdle == InFlight = 0

\* Mutant of Ref_set_lock: lock() does not wait for the thread that holds the
\* guard.
Ref_set_lock_free(t, c, h) ==
    /\ Running
    /\ threads[t] = Idle
    /\ c \in Cells
    /\ h \in handles
    /\ Queued(Len(builders)) + InFlight < MaxSets
    /\ threads' = [threads EXCEPT ![t] =
                       [pc |-> "push", from |-> c, to |-> Load(c),
                        b |-> h.builder,
                        n |-> Len(builders[h.builder].assignments)]]
    /\ UNCHANGED <<heap, locals, handles, builders, status, lastDrop>>

\* Ref::set on the thread t, its first half: assignments.lock() returns once
\* no other thread holds the guard, the RefAssignment is built (self.ptr is
\* loaded), and SmallVec::push reads the length n of the queue.
Ref_set_lock(t, c, h) ==
    /\ Running
    /\ threads[t] = Idle
    /\ c \in Cells
    /\ h \in handles
    /\ Queued(Len(builders)) + InFlight < MaxSets
    /\ \A u \in Threads : ~Holds(u, h.builder)
    /\ threads' = [threads EXCEPT ![t] =
                       [pc |-> "push", from |-> c, to |-> Load(c),
                        b |-> h.builder,
                        n |-> Len(builders[h.builder].assignments)]]
    /\ UNCHANGED <<heap, locals, handles, builders, status, lastDrop>>

\* Ref::set on the thread t, its second half: push writes the assignment in
\* the slot after the n it read and sets the length to n + 1; the guard is
\* dropped at the end of the statement.
Ref_set_push(t) ==
    /\ threads[t].pc = "push"
    /\ builders' = [builders EXCEPT ![threads[t].b].assignments =
                        Append(SubSeq(@, 1, threads[t].n),
                               [from |-> threads[t].from, to |-> threads[t].to])]
    /\ threads' = [threads EXCEPT ![t] = Idle]
    /\ UNCHANGED <<heap, locals, handles, status, lastDrop, setlog>>

\* Mutant of Ref_clone: the new Ref is empty.
Ref_clone_empty(c) ==
    /\ Running
    /\ c \in Cells
    /\ Cardinality(Cells) < MaxRefs
    /\ locals' = Append(locals, Null)
    /\ UNCHANGED <<heap, handles, builders, status, lastDrop, setlog, threads>>

\* Clone for Ref: a new Ref holding the pointer the original holds.
Ref_clone(c) ==
    /\ Running
    /\ c \in Cells
    /\ Cardinality(Cells) < MaxRefs
    /\ locals' = Append(locals, Load(c))
    /\ UNCHANGED <<heap, handles, builders, status, lastDrop, setlog, threads>>

\* What a build may do with a null pointer transmuted to a reference.
UBOutcomes == {"null_reference", "segfault"}

\* Deref for Ref: the loaded pointer is transmuted to a reference with no
\* check.  A Ref that is set yields its object and changes nothing.  On a
\* null pointer this is undefined behaviour: the caller is handed a reference
\* to address 0 (status "null_reference"), or the process faults (status
\* "segfault"); the model follows the program no further.
Ref_deref(c, ub) ==
    /\ Running
    /\ c \in Cells
    /\ status' = IF Load(c) # Null THEN status ELSE ub
    /\ UNCHANGED <<heap, locals, handles, builders, lastDrop, setlog, threads>>

\* The values `new` is called with: id numbers the objects as the test does,
\* and the Ref field is Ref::empty() or a clone of a Ref the caller holds.
Payloads ==
    [id : {Cardinality(DOMAIN heap)},
     a : {Null} \cup {locals[i] : i \in 1..Len(locals)}]

\* The program without its dereferences: a dereference of a Ref that is set
\* changes nothing, and one of an empty Ref ends what can be said of the run.
Next ==
    \/ Arena_build
    \/ Arena_build_return
    \/ Arena_build_unwind
    \/ \E b \in OpenBuilders, t \in Payloads : Builder_new(b, t)
    \/ \E h \in handles : Builder_freeze(h)
    \/ Ref_empty
    \/ \E c \in Cells, h \in handles : Ref_set(c, h) /\ UNCHANGED setlog
    \/ \E c \in Cells : Ref_clone(c)

Spec == Init /\ [][Next]_vars

\* The same program with its set calls recorded in setlog and with the
\* caller dereferencing Refs.
NextObserved ==
    \/ Arena_build
    \/ Arena_build_return
    \/ Arena_build_unwind
    \/ \E b \in OpenBuilders, t \in Payloads : Builder_new(b, t)
    \/ \E h \in handles : Builder_freeze(h)
    \/ Ref_empty
    \/ \E c \in Cells, h \in handles : Ref_set(c, h) /\ Logged(c, h)
    \/ \E c \in Cells : Ref_clone(c)
    \/ \E c \in Cells, ub \in UBOutcomes : Ref_deref(c, ub)

SpecObserved == Init /\ [][NextObserved]_vars

\* One session at a time, with its set calls made by threads that the
\* closure starts and joins (a scope of threads): while they run, the thread
\* that called build waits, and the set calls interleave at the steps of
\* Ref::set.
NextThreads ==
    \/ Arena_build /\ builders = <<>>
    \/ Arena_build_return /\ AllIdle
    \/ \E b \in OpenBuilders, t \in Payloads : Builder_new(b, t) /\ AllIdle
    \/ \E t \in Threads, c \in Cells, h \in handles :
           Ref_set_lock(t, c, h) /\ Logged(c, h)
    \/ \E t \in Threads : Ref_set_push(t)

SpecThreads == Init /\ [][NextThreads]_vars

\* ------------------------------------------------------------ properties

\* The Ref c read in the state a step leads to.
LoadNext(c) == LoadIn(Memory', c)

\* A step in which a Builder is dropped: its build call ends.
DropStep == Len(builders') < Len(builders)

\* A step in which the innermost build call returns to its caller.
Returns == DropStep /\ status' = "running"

\* The queue of the innermost Builder.
TopQueue == builders[Top].assignments

\* The set calls recorded for the Builder b.
SetsOf(b) == {i \in 1..Len(setlog) : setlog[i].b = b}

\* No Ref was the subject of two of the recorded set calls.
SetOnce == \A i, j \in 1..Len(setlog) : setlog[i].from = setlog[j].from => i = j

\* C1: when every Ref is set at most once, then as build returns every Ref
\* on which set(target) was called holds the address of the object behind
\* target (cycles and self-loops included).
C1_SetRoundTrip ==
    [][(Returns /\ SetOnce)
          => \A i \in SetsOf(Top) : LoadNext(setlog[i].from) = setlog[i].tgt]_vars

\* C2: a session in which set was called twice on the same Ref never
\* returns normally: the double assignment is reported.
C2_DoubleSetRejected ==
    [][Returns
          => \A i, j \in SetsOf(Top) :
                 setlog[i].from = setlog[j].from => i = j]_vars

\* C3: dereferencing a Ref that holds no object fails (a panic, or at least
\* a fault); it never hands the caller a reference.
C3_UnboundDerefFails ==
    [][\A c \in Cells :
          (Load(c) = Null /\ \E ub \in UBOutcomes : Ref_deref(c, ub))
              => status' \in {"unwinding", "segfault"}]_vars

\* C4: as build returns, its Builder has been dropped: every assignment
\* queued on it was applied, once, and its queue is gone; the queues of the
\* enclosing build calls, which have not returned, are as they were.
C4_CommitBeforeReturn ==
    [][Returns
          => /\ lastDrop' = [st |-> "returned", done |-> Len(TopQueue)]
             /\ \A i \in 1..Len(TopQueue) :
                    LoadNext(TopQueue[i].from) = TopQueue[i].to
             /\ builders' = Pop(builders)]_vars

\* C4, witness: a build call with a queued assignment has returned.
C4_Witness == lastDrop.st = "returned" /\ lastDrop.done >= 1

\* C5: a Ref that holds an address holds it for ever, and as a build call
\* returns every Ref that was assigned in its session holds an address.
C5_BoundOnce ==
    [][/\ \A c \in Cells : Load(c) # Null => LoadNext(c) = Load(c)
       /\ Returns => \A i \in SetsOf(Top) : LoadNext(setlog[i].from) # Null]_vars

\* C6: after the session a Ref that was set yields an object, and the same
\* one for every Ref set to the same target, whether that target's handle
\* was frozen early, late or not at all.
C6_FreezeTimingIrrelevant ==
    [][(Returns /\ SetOnce)
          => \A i, j \in SetsOf(Top) :
                 setlog[i].tgt = setlog[j].tgt
                     => /\ LoadNext(setlog[i].from) # Null
                        /\ LoadNext(setlog[i].from) = LoadNext(setlog[j].from)]_vars

\* C7: a step that consumes a handle while its Builder lives is a freeze:
\* the Ref it returns holds the handle's address, an address alloc returned,
\* and no object, no other Ref and no queue changes.
C7_FreezeIsLogical ==
    [][\A h \in handles :
          (h \notin handles' /\ ~DropStep)
              => /\ locals' = Append(locals, h.ptr)
                 /\ h.ptr \in DOMAIN heap
                 /\ heap' = heap
                 /\ builders' = builders]_vars

\* C7, witness: a frozen Ref whose handle is gone.
C7_Witness ==
    \E i \in 1..Len(locals) :
        /\ locals[i] \in DOMAIN heap
        /\ \A h \in handles : h.ptr # locals[i]

\* C8: an object stays at its address through every step, and the address
\* of a new handle is one that no earlier object has.
C8_AddressStability ==
    [][/\ \A p \in DOMAIN heap :
              p \in DOMAIN heap' /\ heap'[p].id = heap[p].id
       /\ \A h \in handles' \ handles :
              h.ptr \notin DOMAIN heap /\ h.ptr \in DOMAIN heap']_vars

\* C8, witness: two objects at two addresses, after a commit.
C8_Witness ==
    /\ lastDrop.st = "returned"
    /\ \E p, r \in DOMAIN heap : p # r /\ heap[p].id # heap[r].id

\* C9: a drop whose queue names a Ref that is already set panics, and every
\* Ref that was set keeps its address.
C9_CommitOnBoundPanics ==
    [][(DropStep /\ \E i \in 1..Len(TopQueue) : Load(TopQueue[i].from) # Null)
          => /\ lastDrop'.st = "panicked"
             /\ status' \in {"unwinding", "aborted"}
             /\ \A c \in Cells : Load(c) # Null => LoadNext(c) = Load(c)]_vars

\* C9, witness: a drop has panicked on a Ref inside an object, one that was
\* created set.
C9_Witness ==
    /\ lastDrop.st = "panicked"
    /\ \E p \in DOMAIN heap : heap[p].a # Null

\* C10: a clone is a new Ref holding what the original holds, the original
\* and every other Ref are unchanged by it, and a commit changes no Ref but
\* those its queue names, so not the clone of one of them.
C10_CloneIndependent ==
    [][/\ \A c \in Cells :
              Ref_clone(c)
                  => LET n == <<"loc", Len(locals) + 1, "-">>
                     IN  /\ n \in Cells' \ Cells
                         /\ LoadNext(n) = Load(c)
                         /\ \A d \in Cells : LoadNext(d) = Load(d)
       /\ DropStep
              => \A d \in Cells :
                     (\A i \in 1..Len(TopQueue) : TopQueue[i].from # d)
                         => LoadNext(d) = Load(d)]_vars

\* C10, witness: a Ref and its clone, both set, after a commit.
C10_Witness ==
    /\ lastDrop.st # "none"
    /\ \E i, j \in 1..Len(locals) :
           i # j /\ locals[i] = locals[j] /\ locals[i] # Null

\* A step in which an assignment is pushed on the queue of the Builder b.
SetStep(b) ==
    /\ Len(builders') = Len(builders)
    /\ Len(builders'[b].assignments) > Len(builders[b].assignments)

\* C13: a call cell.set(target) appends one entry to the queue of the
\* target handle's Builder: its `from` is the cell and its `to` is the address
\* of the object behind the target handle.
C13_SetRecordsTarget ==
    [][\A c \in Cells, h \in handles :
          Ref_set(c, h)
              => builders'[h.builder].assignments
                     = Append(builders[h.builder].assignments,
                              [from |-> c, to |-> h.ptr])]_vars

C16_CommitOrAbort ==
    [][DropStep
          => LET q == TopQueue
                 k == lastDrop'.done
             IN  \/ /\ lastDrop'.st \in {"returned", "unwound"}
                    /\ k = Len(q)
                    /\ \A i \in 1..Len(q) : LoadNext(q[i].from) = q[i].to
                 \/ /\ lastDrop'.st = "panicked"
                    /\ status' \in {"unwinding", "aborted"}
                    /\ k < Len(q)
                    /\ Load(q[k + 1].from) # Null
                    /\ \A i \in 1..k : LoadNext(q[i].from) = q[i].to
                    /\ \A c \in Cells :
                           (\A i \in 1..k : q[i].from # c)
                               => LoadNext(c) = Load(c)]_vars

\* C16, witness: a drop has panicked after it applied an assignment, and a
\* Ref is empty.
C16_Witness ==
    /\ lastDrop.st = "panicked"
    /\ lastDrop.done >= 1
    /\ \E c \in Cells : Load(c) = Null

\* C17: at most one Builder is open on the Arena.
C17_OneSessionAtATime == Len(builders) <= 1

\* The orders in which n queued assignments can be applied.
Perms(n) ==
    {f \in [1..n -> 1..n] : \A i, j \in 1..n : f[i] = f[j] => i = j}

\* The queue q applied in the order f.
Permute(q, f) == [i \in 1..Len(q) |-> q[f[i]]]

\* The assignments of q name Refs that differ from each other.
DistinctRefs(q) == \A i, j \in 1..Len(q) : q[i].from = q[j].from => i = j

\* A Ref named by q is already set.
NamesSetRef(q) == \E i \in 1..Len(q) : Load(q[i].from) # Null

\* C15, as stated: when the queue of the innermost Builder names Refs that
\* differ from each other, its drop leaves the same memory whatever the order
\* of the queue, and in no order does it panic.
C15_OrderIrrelevant ==
    (builders # <<>> /\ DistinctRefs(TopQueue))
        => \A f \in Perms(Len(TopQueue)) :
               LET r == Builder_drop(Memory, Permute(TopQueue, f))
               IN  /\ r.mem = Builder_drop(Memory, TopQueue).mem
                   /\ ~r.panicked

\* C15, amended: when the queue of the innermost Builder names Refs that
\* differ from each other, its drop leaves the same memory whatever the order
\* of the queue; in no order does it panic when every Ref named is empty, and
\* in every order it panics when one of them is already set.
C15_OrderIrrelevantForEmptyRefs ==
    (builders # <<>> /\ DistinctRefs(TopQueue))
        => \A f \in Perms(Len(TopQueue)) :
               LET r == Builder_drop(Memory, Permute(TopQueue, f))
               IN  /\ r.mem = Builder_drop(Memory, TopQueue).mem
                   /\ r.panicked = NamesSetRef(TopQueue)

\* C15, witness: two assignments are queued on the innermost Builder, for two
\* Refs that are both empty.
C15_Witness ==
    /\ builders # <<>>
    /\ Len(TopQueue) >= 2
    /\ DistinctRefs(TopQueue)
    /\ ~NamesSetRef(TopQueue)

\* The recorded set calls that compete with the call i: calls on the same Ref
\* made through a handle of another Builder.
Rivals(i) ==
    {j \in 1..Len(setlog) :
        setlog[j].from = setlog[i].from /\ setlog[j].b # setlog[i].b}

\* C12: of two binds of the same empty Ref, each a compare-and-swap from
\* Null and so atomic, one comes first in every interleaving.  That one wins:
\* as the build call that makes it returns, the Ref holds the address it was
\* set to, which is what makes the other one find the Ref set and panic.
C12_OneBindWins ==
    [][Returns
          => \A i \in SetsOf(Top) :
                 (Rivals(i) # {} /\ Load(setlog[i].from) = Null)
                     => /\ LoadNext(setlog[i].from) # Null
                        /\ \E k \in SetsOf(Top) :
                               /\ setlog[k].from = setlog[i].from
                               /\ LoadNext(setlog[i].from) = setlog[k].tgt]_vars

\* The assignments of the queue q, and the recorded set calls on the Builder
\* b, that name the Ref c.
InQueue(q, c) == Cardinality({i \in 1..Len(q) : q[i].from = c})

InLog(log, b, c) ==
    Cardinality({i \in 1..Len(log) : log[i].b = b /\ log[i].from = c})

\* The set calls that hold the guard of the Builder b and have not pushed.
Pushing(b) == Cardinality({t \in Threads : Holds(t, b)})

\* C11: whatever the interleaving of the threads' set calls, the queue of a
\* Builder holds one assignment for each set call that has pushed on it, none
\* lost and none twice: its length is the number of calls made less those
\* still before their push, and once no call is in progress it names each Ref
\* as often as set was called on it.  The drop as build returns applies as
\* many assignments as set calls were made.
C11_QueueUnderThreads ==
    [][/\ \A b \in OpenBuilders :
              /\ Len(builders[b].assignments) + Pushing(b)
                     = Cardinality(SetsOf(b))
              /\ AllIdle
                     => \A c \in Cells :
                            InQueue(builders[b].assignments, c)
                                = InLog(setlog, b, c)
       /\ Returns => lastDrop'.done = Cardinality(SetsOf(Top))]_vars

\* C11, witness: two set calls made by threads have pushed on one queue.
C11_Witness ==
    /\ AllIdle
    /\ \E b \in OpenBuilders :
           /\ Len(builders[b].assignments) >= 2
           /\ Cardinality(SetsOf(b)) >= 2

====
